---------------------------- MODULE Spec2Model ----------------------------
(***************************************************************************)
(* A model of body_simulator: the Organ / HumanBody anatomical model        *)
(* (models/human_body.py) and the voxelizer (utils/mesh_utils.py).          *)
(*                                                                          *)
(* trimesh, os and json are collaborators of the program.  What they return *)
(* is an input of the operation that calls them: every action draws it from *)
(* a small set of outcomes (a mesh, an empty mesh, an object of another     *)
(* type, None, an exception).                                               *)
(***************************************************************************)
EXTENDS Integers, Sequences, FiniteSets, TLC

(***************************************************************************)
(* Bounds of the model.                                                     *)
(***************************************************************************)
MaxFaces == 2

(***************************************************************************)
(* Python values.  A number carries its type, so that float() and           *)
(* isinstance() can be modelled by what they do.  Python's == on numbers    *)
(* compares the value and ignores the type (1000 == 1000.0).                *)
(***************************************************************************)
PyInt(n) == [t |-> "int", v |-> n]
PyFloat(n) == [t |-> "float", v |-> n]
StrVal == [t |-> "str", v |-> 0]

IsNumber(x) == x.t \in {"int", "float"}
IsInt(x) == x.t = "int"
PyEq(a, b) == IsNumber(a) /\ IsNumber(b) /\ a.v = b.v

NoneStr == "<None>"
EmptyStr == ""
MeshFiles == {"heart.obj"}

(***************************************************************************)
(* Objects of the geometry library.  kind is the object's type as           *)
(* isinstance() sees it; id is the object's identity; is_empty, vertices    *)
(* and faces are the attributes the program reads.  "raise" stands for a    *)
(* call that raises instead of returning.  is_empty is the library's       *)
(* report that a mesh holds no data at all; the program tests it and never  *)
(* the face count, and a mesh that still has vertices but no face left      *)
(* (VertexOnly) is not empty to the library.                                *)
(***************************************************************************)
Obj(k) == [kind |-> k, id |-> 0, is_empty |-> FALSE, vertices |-> 0, faces |-> 0]
None == Obj("none")
Raise == Obj("raise")
Other == Obj("other")
NotCalled == Obj("notcalled")

Tm(i, f) ==
    [kind |-> "trimesh", id |-> i, is_empty |-> (f = 0),
     vertices |-> IF f = 0 THEN 0 ELSE f + 2, faces |-> f]

\* Meshes are told apart by where they come from: 1 is what the loader
\* returns, 2 what process() returns (and what a caller assigns), 3 what
\* the decimation returns.
VertexOnly(i) ==
    [kind |-> "trimesh", id |-> i, is_empty |-> FALSE, vertices |-> 1, faces |-> 0]

Trimeshes == {Tm(2, f) : f \in 0..MaxFaces} \cup {VertexOnly(2)}
Candidates == {Tm(1, 0), Tm(1, MaxFaces)}

IsTrimesh(x) == x.kind = "trimesh"

(***************************************************************************)
(* Organ.__init__ without the trailing load_mesh: the fields and their      *)
(* defaults.                                                                *)
(***************************************************************************)
EmptyDict == [n \in {} |-> None]

OrganFields(name, mesh_file) ==
    [name |-> name,
     mesh_file |-> mesh_file,
     mesh |-> None,
     sub_organs |-> EmptyDict,
     magnetic_susceptibility |-> PyFloat(0),
     permeability |-> PyFloat(1),
     permittivity |-> PyFloat(1),
     conductivity |-> PyFloat(0),
     elasticity |-> PyFloat(0),
     density |-> PyInt(1000),
     voxel_grid |-> None,
     voxel_resolution |-> PyFloat(1)]

(***************************************************************************)
(* What the outside world does during one load_mesh call.                   *)
(*   isfile    os.path.isfile(mesh_file)                                    *)
(*   loaded    what trimesh.load returns: Raise, Other, a scene, a mesh     *)
(*   parts     len(scene.geometry) when loaded is a scene                   *)
(*   dumped    what scene.dump(concatenate=True) returns                    *)
(*   processed what mesh_candidate.process() returns                        *)
(*   logRaises whether reading the stored mesh for the log line raises      *)
(* The parts of a scenario the call never reaches are fixed to NotCalled,   *)
(* so that no two scenarios differ only in what is never looked at.         *)
(***************************************************************************)
Scenario(isfile, loaded, parts, dumped, processed, logRaises) ==
    [isfile |-> isfile, loaded |-> loaded, parts |-> parts, dumped |-> dumped,
     processed |-> processed, logRaises |-> logRaises]

Scene == Obj("scene")
PartCounts == {2}

ProcessScenarios(isfile, loaded, parts, dumped) ==
    {Scenario(isfile, loaded, parts, dumped, p, FALSE) :
         p \in {Raise, Other} \cup Trimeshes}
    \cup {Scenario(isfile, loaded, parts, dumped, p, TRUE) :
              p \in {m \in Trimeshes : ~m.is_empty}}

CandidateScenarios(loaded, parts, dumped, cand) ==
    IF cand.is_empty
    THEN {Scenario(TRUE, loaded, parts, dumped, NotCalled, FALSE)}
    ELSE ProcessScenarios(TRUE, loaded, parts, dumped)

LoadScenarios ==
    {Scenario(FALSE, NotCalled, 0, NotCalled, NotCalled, FALSE)}
    \cup {Scenario(TRUE, l, 0, NotCalled, NotCalled, FALSE) : l \in {Raise, Other}}
    \cup UNION {CandidateScenarios(c, 0, NotCalled, c) : c \in Candidates}
    \cup {Scenario(TRUE, Scene, 0, NotCalled, NotCalled, FALSE)}
    \cup {Scenario(TRUE, Scene, n, d, NotCalled, FALSE) :
              n \in PartCounts, d \in {Raise, Other}}
    \cup UNION {CandidateScenarios(Scene, n, c, c) :
                    n \in PartCounts, c \in Candidates}

(***************************************************************************)
(* Organ.load_mesh.  The result is the organ after the call and the         *)
(* library calls made, in order.                                            *)
(***************************************************************************)
LoadDone(o, calls) == [organ |-> o, calls |-> calls]

\* The first two statements: the path is stored and the mesh cleared.
ResetForLoadKeepsMesh(o, mesh_file) == [o EXCEPT !.mesh_file = mesh_file]
ResetForLoad(o, mesh_file) == [o EXCEPT !.mesh_file = mesh_file, !.mesh = None]

\* isinstance(mesh_candidate, trimesh.Trimesh) and not mesh_candidate.is_empty
CandidateUsable(m) == IsTrimesh(m) /\ ~m.is_empty

\* isinstance(processed_mesh, trimesh.Trimesh) and not processed_mesh.is_empty
ProcessedUsable(m) == IsTrimesh(m) /\ ~m.is_empty

load_mesh_process(o0, cand, sc, calls) ==
    IF ~CandidateUsable(cand)
    THEN LoadDone(o0, calls)
    ELSE IF sc.processed = Raise
    THEN LoadDone([o0 EXCEPT !.mesh = None], Append(calls, "process"))
    ELSE IF ~ProcessedUsable(sc.processed)
    THEN LoadDone(o0, Append(calls, "process"))
    ELSE IF sc.logRaises
    THEN LoadDone([o0 EXCEPT !.mesh = None], Append(calls, "process"))
    ELSE LoadDone([o0 EXCEPT !.mesh = sc.processed], Append(calls, "process"))

load_mesh(o, mesh_file, sc) ==
    LET o0 == ResetForLoad(o, mesh_file)
    IN  IF ~sc.isfile
        THEN LoadDone(o0, <<"isfile">>)
        ELSE IF sc.loaded = Raise
        THEN LoadDone([o0 EXCEPT !.mesh = None], <<"isfile", "load">>)
        ELSE IF sc.loaded.kind = "scene"
        THEN IF sc.parts = 0
             THEN LoadDone(o0, <<"isfile", "load">>)
             ELSE IF sc.dumped = Raise \/ ~IsTrimesh(sc.dumped)
             THEN LoadDone(o0, <<"isfile", "load", "dump">>)
             ELSE load_mesh_process(o0, sc.dumped, sc, <<"isfile", "load", "dump">>)
        ELSE load_mesh_process(o0, sc.loaded, sc, <<"isfile", "load">>)

(***************************************************************************)
(* Organ.__init__: the fields, then load_mesh when mesh_file is truthy      *)
(* (neither None nor the empty string).                                     *)
(***************************************************************************)
Truthy(s) == s # NoneStr /\ s # EmptyStr

NewOrgan(name, mesh_file, sc) ==
    IF Truthy(mesh_file)
    THEN load_mesh(OrganFields(name, mesh_file), mesh_file, sc).organ
    ELSE OrganFields(name, mesh_file)

NoScenario == Scenario(FALSE, NotCalled, 0, NotCalled, NotCalled, FALSE)

(***************************************************************************)
(* mesh_utils.voxelize_mesh.  vx is what mesh.voxelized(pitch) does: it     *)
(* returns the surface shell of the mesh at that pitch ("ok") or raises     *)
(* ("raise").  A grid records the mesh and the pitch it was computed from   *)
(* and whether the library's interior fill was applied to it.               *)
(***************************************************************************)
Grid(m, p, filled) == [kind |-> "grid", of |-> m, pitch |-> p, filled |-> filled]

VoxDone(ret, calls) == [ret |-> ret, calls |-> calls]

\* isinstance(mesh, trimesh.Trimesh) and not mesh.is_empty
MeshIsValid(mesh) == IsTrimesh(mesh) /\ ~mesh.is_empty

\* isinstance(pitch, (int, float)) and pitch > 0
PitchIsValidOrZero(pitch) == IsNumber(pitch) /\ pitch.v >= 0
PitchIsValid(pitch) == IsNumber(pitch) /\ pitch.v > 0

voxelize_mesh(mesh, pitch, vx) ==
    IF ~MeshIsValid(mesh)
    THEN VoxDone(None, <<>>)
    ELSE IF ~PitchIsValid(pitch)
    THEN VoxDone(None, <<>>)
    ELSE IF vx = "raise"
    THEN VoxDone(None, <<"voxelized">>)
    ELSE VoxDone(Grid(mesh, pitch, FALSE), <<"voxelized">>)

(***************************************************************************)
(* Organ.voxelize_mesh                                                      *)
(***************************************************************************)
Organ_voxelize_mesh(o, vx) ==
    IF o.mesh = None
    THEN [organ |-> [o EXCEPT !.voxel_grid = None], calls |-> <<>>]
    ELSE LET r == voxelize_mesh(o.mesh, o.voxel_resolution, vx)
         IN  [organ |-> [o EXCEPT !.voxel_grid = r.ret],
              calls |-> <<"voxelize_mesh">> \o r.calls]

(***************************************************************************)
(* Organ.simplify_mesh.  dec is what simplify_quadric_decimation does:      *)
(* it raises, or returns None, an object that is no mesh, or a mesh.        *)
(***************************************************************************)
SimpDone(o, ret, calls) == [organ |-> o, ret |-> ret, calls |-> calls]

\* isinstance(self.mesh, trimesh.Trimesh) and not self.mesh.is_empty
HasValidMesh(o) == IsTrimesh(o.mesh) /\ ~o.mesh.is_empty

\* isinstance(target_face_count, int) and target_face_count > 0
TargetIsValidOrZero(target_face_count) ==
    IsInt(target_face_count) /\ target_face_count.v >= 0
TargetIsValid(target_face_count) ==
    IsInt(target_face_count) /\ target_face_count.v > 0

\* target_face_count >= original_face_count, with
\* original_face_count = len(self.mesh.faces)
NoSimplificationNeededNever(target_face_count, o) == FALSE
NoSimplificationNeededStrict(target_face_count, o) ==
    target_face_count.v > o.mesh.faces
NoSimplificationNeeded(target_face_count, o) ==
    target_face_count.v >= o.mesh.faces

\* not (simplified_mesh is None or simplified_mesh.is_empty); reading
\* is_empty of an object that has none raises, which the handler catches.
DecimationUsableAnyMesh(dec) == dec # Raise /\ dec # None /\ IsTrimesh(dec)
DecimationUsable(dec) ==
    dec # Raise /\ dec # None /\ IsTrimesh(dec) /\ ~dec.is_empty

simplify_mesh(o, target_face_count, dec) ==
    IF ~HasValidMesh(o)
    THEN SimpDone(o, FALSE, <<>>)
    ELSE IF ~TargetIsValid(target_face_count)
    THEN SimpDone(o, FALSE, <<>>)
    ELSE IF NoSimplificationNeeded(target_face_count, o)
    THEN SimpDone(o, TRUE, <<>>)
    ELSE IF ~DecimationUsable(dec)
    THEN SimpDone(o, FALSE, <<"simplify_quadric_decimation">>)
    ELSE SimpDone([o EXCEPT !.mesh = dec], TRUE, <<"simplify_quadric_decimation">>)

\* The decimation may hand back any mesh, one with more faces than any
\* loaded mesh included.
Decimations ==
    {Raise, None, Other, VertexOnly(3)}
    \cup {Tm(3, f) : f \in 0..(MaxFaces + 1)}
Targets == {PyInt(n) : n \in -1..(MaxFaces + 1)} \cup {PyFloat(2), StrVal}
Resolutions == {PyFloat(1), PyFloat(2), PyInt(0)}
Rasterizations == {"ok", "raise"}

(***************************************************************************)
(* Organ.add_sub_organ and HumanBody.add_organ: a dict store under the      *)
(* organ's own name.  A dict is a function from its keys.                   *)
(***************************************************************************)
PutAlone(d, k, x) == [y \in {k} |-> x]
Put(d, k, x) == [y \in (DOMAIN d) \cup {k} |-> IF y = k THEN x ELSE d[y]]

add_sub_organ(o, sub) == [o EXCEPT !.sub_organs = Put(o.sub_organs, sub.name, sub)]

add_organ(organs, o) == Put(organs, o.name, o)

(***************************************************************************)
(* float(x): a number becomes a float of the same value; anything else      *)
(* raises.  FloatOk says whether float(x) returns.                          *)
(***************************************************************************)
FloatOk(x) == IsNumber(x)
float(x) == PyFloat(x.v)

(***************************************************************************)
(* Organ.interpolate_properties and Organ.to_dict                           *)
(***************************************************************************)
interpolate_properties_shifted(o) ==
    [magnetic_susceptibility |-> float(o.magnetic_susceptibility),
     permeability |-> float(o.permeability),
     permittivity |-> float(o.permittivity),
     conductivity |-> float(o.conductivity),
     elasticity |-> float(o.conductivity),
     density |-> float(o.density)]

interpolate_properties(o) ==
    [magnetic_susceptibility |-> float(o.magnetic_susceptibility),
     permeability |-> float(o.permeability),
     permittivity |-> float(o.permittivity),
     conductivity |-> float(o.conductivity),
     elasticity |-> float(o.elasticity),
     density |-> float(o.density)]

RECURSIVE to_dict(_)
to_dict(o) ==
    [kind |-> "dict",
     name |-> o.name,
     mesh_file |-> o.mesh_file,
     voxel_resolution |-> o.voxel_resolution,
     properties |-> interpolate_properties(o),
     sub_organs |-> [n \in DOMAIN o.sub_organs |-> to_dict(o.sub_organs[n])]]

(***************************************************************************)
(* Organ.from_dict.  A record is a dict (kind "dict") or something else     *)
(* (kind "nondict").  A key the dict lacks reads as Missing (name:          *)
(* MissingKey), and dict.get replaces it by the default.  fs gives, for     *)
(* every mesh file path, what a load_mesh of that path meets.  The result   *)
(* is the organ, or ok = FALSE when an exception leaves from_dict           *)
(* (KeyError for the name, ValueError or TypeError from float()).           *)
(***************************************************************************)
Missing == [t |-> "missing", v |-> 0]
MissingKey == "<missing>"
Get(x, default) == IF x = Missing THEN default ELSE x

Decoded(o) == [ok |-> TRUE, organ |-> o]
DecodeError == [ok |-> FALSE, organ |-> OrganFields(MissingKey, NoneStr)]

PathScenario(fs, mesh_file) ==
    IF mesh_file \in DOMAIN fs THEN fs[mesh_file] ELSE NoScenario

RECURSIVE from_dict(_, _)
RECURSIVE from_dict_sub_organs(_, _, _, _)

from_dict_sub_organs(r, subs, keys, fs) ==
    IF keys = {} \/ ~r.ok
    THEN r
    ELSE LET sub_name == CHOOSE k \in keys : TRUE
             sub_data == subs[sub_name]
             rest == keys \ {sub_name}
         IN  IF sub_data.kind = "dict"
             THEN LET sub == from_dict(sub_data, fs)
                  IN  IF sub.ok
                      THEN from_dict_sub_organs(
                               Decoded(add_sub_organ(r.organ, sub.organ)),
                               subs, rest, fs)
                      ELSE DecodeError
             ELSE from_dict_sub_organs(r, subs, rest, fs)

from_dict(data, fs) ==
    IF data.name = MissingKey
    THEN DecodeError
    ELSE LET organ0 == NewOrgan(data.name, data.mesh_file,
                                PathScenario(fs, data.mesh_file))
             props == data.properties
             ms == Get(props.magnetic_susceptibility, PyFloat(0))
             pb == Get(props.permeability, PyFloat(1))
             pt == Get(props.permittivity, PyFloat(1))
             cd == Get(props.conductivity, PyFloat(0))
             el == Get(props.elasticity, PyFloat(0))
             dn == Get(props.density, PyFloat(1000))
             vr == Get(data.voxel_resolution, PyFloat(1))
         IN  IF \E x \in {ms, pb, pt, cd, el, dn, vr} : ~FloatOk(x)
             THEN DecodeError
             ELSE from_dict_sub_organs(
                      Decoded([organ0 EXCEPT
                                 !.magnetic_susceptibility = float(ms),
                                 !.permeability = float(pb),
                                 !.permittivity = float(pt),
                                 !.conductivity = float(cd),
                                 !.elasticity = float(el),
                                 !.density = float(dn),
                                 !.voxel_resolution = float(vr)]),
                      data.sub_organs, DOMAIN data.sub_organs, fs)

(***************************************************************************)
(* HumanBody.save_to_file and HumanBody.load_from_file.  A file is missing, *)
(* holds text that is no JSON, holds JSON that is no object (data.items()   *)
(* raises), or holds a JSON object; json.dump and                           *)
(* json.load carry strings, numbers (an int stays an int, a float a float), *)
(* null and objects over unchanged, so the document is modelled by the      *)
(* value it denotes.  io is what open() does: "ok" or "ioerror".            *)
(***************************************************************************)
NoFile == [kind |-> "missing", doc |-> EmptyDict]
Garbage == [kind |-> "garbage", doc |-> EmptyDict]
NonObject == [kind |-> "nonobject", doc |-> EmptyDict]
JsonFile(doc) == [kind |-> "json", doc |-> doc]

save_to_file(organs, file, io) ==
    LET data == [name \in DOMAIN organs |-> to_dict(organs[name])]
    IN  IF io = "ok" THEN JsonFile(data) ELSE file

RECURSIVE load_organs(_, _, _, _)
load_organs(r, data, keys, fs) ==
    IF keys = {} \/ ~r.ok
    THEN r
    ELSE LET name == CHOOSE k \in keys : TRUE
             organ_data == data[name]
             rest == keys \ {name}
         IN  IF organ_data.kind = "dict"
             THEN LET d == from_dict(organ_data, fs)
                  IN  IF d.ok
                      THEN load_organs([ok |-> TRUE,
                                        organs |-> Put(r.organs, name, d.organ)],
                                       data, rest, fs)
                      ELSE [ok |-> FALSE, organs |-> EmptyDict]
             ELSE load_organs(r, data, rest, fs)

\* self.organs = {} before the records are decoded (line 284)
KeptOrgans(organs) == organs
ClearedOrgans(organs) == EmptyDict

\* The same, but a missing file leaves the organs as they were.
load_from_file_keeping(organs, file, io, fs) ==
    IF file.kind = "missing"
    THEN organs
    ELSE IF io # "ok" \/ file.kind \in {"garbage", "nonobject"}
    THEN EmptyDict
    ELSE load_organs([ok |-> TRUE, organs |-> EmptyDict],
                     file.doc, DOMAIN file.doc, fs).organs

load_from_file(organs, file, io, fs) ==
    IF file.kind = "missing"
    THEN EmptyDict
    ELSE IF io # "ok" \/ file.kind \in {"garbage", "nonobject"}
    THEN EmptyDict
    ELSE load_organs([ok |-> TRUE, organs |-> ClearedOrgans(organs)],
                     file.doc, DOMAIN file.doc, fs).organs

(***************************************************************************)
(* The state.                                                               *)
(*   organ, last   one Organ and the record of the last call made (its      *)
(*                 arguments, what the library did, what it returned, the   *)
(*                 library calls it made)                                   *)
(*   bench         Organs under construction that no parent owns yet        *)
(*   body          HumanBody.organs of the body being built                 *)
(*   file          the model record file                                    *)
(*   fresh         HumanBody.organs of a second, fresh body                 *)
(*   steps         how many Organs were constructed and attributes assigned *)
(*   phase         "build", then "saved" after save_to_file, then "done"    *)
(*   requests      the upload_dicom requests: how far each one has come     *)
(*   uploads       the upload folder: the generated mesh file and the       *)
(*                 temporary directories                                    *)
(***************************************************************************)
VARIABLES organ, last, bench, body, file, fresh, steps, phase,
          requests, uploads

vars == <<organ, last, bench, body, file, fresh, steps, phase,
          requests, uploads>>

serialVars == <<bench, body, file, fresh, steps, phase>>
routeVars == <<requests, uploads>>

MaxSteps == 3

Slots == {1, 2}
Names == {"Heart", "Ventricle"}
Free == [free |-> TRUE]

\* The upload_dicom requests and the upload folder before any request.
RequestIds == {1, 2}
NotReceived == [pc |-> "idle", status |-> 0, created |-> FALSE, rmtree |-> "ok"]
Absent == [kind |-> "absent", of |-> 0]
EmptyFolder == [generated |-> Absent, dirs |-> [r \in RequestIds |-> FALSE]]

Init ==
    /\ organ = OrganFields("Heart", NoneStr)
    /\ last = [op |-> "init"]
    /\ bench = [s \in Slots |-> Free]
    /\ body = EmptyDict
    /\ file = NoFile
    /\ fresh = EmptyDict
    /\ steps = 0
    /\ phase = "build"
    /\ requests = [r \in RequestIds |-> NotReceived]
    /\ uploads = EmptyFolder

(***************************************************************************)
(* Calls on one Organ.                                                      *)
(***************************************************************************)
Construct ==
    \E f \in {"heart.obj", NoneStr, EmptyStr}, sc \in LoadScenarios :
        /\ Truthy(f) \/ sc = NoScenario
        /\ organ' = NewOrgan("Heart", f, sc)
        /\ last' = [op |-> "construct", mesh_file |-> f, sc |-> sc]
        /\ UNCHANGED <<serialVars, routeVars>>

LoadMesh ==
    \E f \in MeshFiles, sc \in LoadScenarios :
        LET r == load_mesh(organ, f, sc)
        IN  /\ organ' = r.organ
            /\ last' = [op |-> "load_mesh", mesh_file |-> f, sc |-> sc,
                        had |-> (organ.mesh # None), calls |-> r.calls]
            /\ UNCHANGED <<serialVars, routeVars>>

\* When the decimation is not reached, what it would have returned is not
\* part of the call: only one choice of dec is taken then.
SimplifyMesh ==
    \E t \in Targets, dec \in Decimations :
        LET r == simplify_mesh(organ, t, dec)
        IN  /\ r.calls = <<>> => dec = None
            /\ organ' = r.organ
            /\ last' = [op |-> "simplify_mesh", target |-> t,
                        dec |-> IF r.calls = <<>> THEN NotCalled ELSE dec,
                        premesh |-> organ.mesh,
                        ret |-> r.ret, calls |-> r.calls]
            /\ UNCHANGED <<serialVars, routeVars>>

VoxelizeMesh ==
    \E vx \in Rasterizations :
        LET r == Organ_voxelize_mesh(organ, vx)
        IN  /\ organ' = r.organ
            /\ last' = [op |-> "voxelize_mesh", vx |-> vx, calls |-> r.calls]
            /\ UNCHANGED <<serialVars, routeVars>>

SetVoxelResolution ==
    \E p \in Resolutions :
        /\ organ' = [organ EXCEPT !.voxel_resolution = p]
        /\ last' = [op |-> "set", field |-> "voxel_resolution", value |-> p]
        /\ UNCHANGED <<serialVars, routeVars>>

SerialScenarios ==
    {NoScenario,
     Scenario(TRUE, Tm(1, MaxFaces), 0, NotCalled, Tm(2, MaxFaces), FALSE)}

EmptyScenarios ==
    {Scenario(TRUE, Tm(1, 0), 0, NotCalled, NotCalled, FALSE),
     Scenario(TRUE, Tm(1, MaxFaces), 0, NotCalled, Tm(2, 0), FALSE)}

\* Organ.from_dict of a record without sub-organs.
FlatRecords ==
    {[kind |-> "dict", name |-> "Heart", mesh_file |-> f, voxel_resolution |-> p,
      properties |-> interpolate_properties(OrganFields("Heart", f)),
      sub_organs |-> EmptyDict] :
         f \in {"heart.obj", NoneStr}, p \in Resolutions \cup {Missing}}

FromDict ==
    \E data \in FlatRecords, sc \in SerialScenarios \cup EmptyScenarios :
        LET r == from_dict(data, [f \in {"heart.obj"} |-> sc])
        IN  /\ Truthy(data.mesh_file) \/ sc = NoScenario
            /\ r.ok
            /\ organ' = r.organ
            /\ last' = [op |-> "from_dict", data |-> data, sc |-> sc]
            /\ UNCHANGED <<serialVars, routeVars>>

Next ==
    \/ Construct
    \/ LoadMesh
    \/ SimplifyMesh
    \/ VoxelizeMesh
    \/ SetVoxelResolution
    \/ FromDict

Spec == Init /\ [][Next]_vars

(***************************************************************************)
(* Properties of the mesh operations.                                       *)
(***************************************************************************)

\* C2: after load_mesh (called directly or by the constructor) the organ's
\* mesh is the processed mesh when the load succeeded and absent after every
\* failure, whatever mesh the organ held before.
C2_LoadMeshAllOrNothing ==
    (last.op = "load_mesh" \/ (last.op = "construct" /\ Truthy(last.mesh_file)))
    => IF /\ last.sc.processed.kind = "trimesh"
          /\ ~last.sc.processed.is_empty
          /\ ~last.sc.logRaises
       THEN organ.mesh = last.sc.processed
       ELSE organ.mesh = None

\* A load that fails in processing, on an organ that held a mesh.
C2_Witness ==
    /\ last.op = "load_mesh"
    /\ last.had
    /\ last.calls # <<>> /\ last.calls[Len(last.calls)] = "process"
    /\ organ.mesh = None

\* C3: simplify_mesh on a non-empty mesh with f >= 1 faces and an integer
\* target at or above f returns True, does not call the decimation and leaves the mesh as
\* it was.
C3_NoOpAtOrAboveFaceCount ==
    (/\ last.op = "simplify_mesh"
     /\ last.premesh.kind = "trimesh" /\ ~last.premesh.is_empty
     /\ last.premesh.faces >= 1
     /\ last.target.t = "int"
     /\ last.target.v >= last.premesh.faces)
    => /\ last.ret = TRUE
       /\ last.calls = <<>>
       /\ organ.mesh = last.premesh

\* A call whose target equals the face count of the mesh held.
C3_Witness ==
    /\ last.op = "simplify_mesh"
    /\ last.premesh.kind = "trimesh" /\ last.premesh.faces > 0
    /\ last.target = PyInt(last.premesh.faces)
    /\ last.ret = TRUE

\* C4: when the decimation is called, the mesh is replaced, and True
\* returned, exactly when it hands back a non-empty mesh; when it returns
\* nothing, an empty mesh or raises, False is returned and the mesh is the
\* one held before.
C4_DecimationOutcome ==
    (last.op = "simplify_mesh" /\ last.calls # <<>>)
    => IF last.dec.kind = "trimesh" /\ ~last.dec.is_empty
       THEN last.ret = TRUE /\ organ.mesh = last.dec
       ELSE last.ret = FALSE /\ organ.mesh = last.premesh

\* The decimation handed back an empty mesh and the organ kept its own.
C4_Witness ==
    /\ last.op = "simplify_mesh"
    /\ last.dec.kind = "trimesh" /\ last.dec.is_empty
    /\ last.ret = FALSE
    /\ organ.mesh = last.premesh /\ organ.mesh # None

\* C6 as stated: after simplify_mesh the mesh never has more faces than
\* before, whatever the decimation returned.
C6_NeverMoreFaces ==
    last.op = "simplify_mesh" => organ.mesh.faces <= last.premesh.faces

\* C6 amended: the mesh has more faces than before only when the
\* decimation, called with a valid target below the current count, itself
\* returned a mesh with more faces, which is stored as it is.
C6_MoreFacesOnlyFromDecimation ==
    last.op = "simplify_mesh"
    => \/ organ.mesh.faces <= last.premesh.faces
       \/ /\ last.calls = <<"simplify_quadric_decimation">>
          /\ organ.mesh = last.dec
          /\ last.dec.faces > last.premesh.faces
          /\ last.target.t = "int"
          /\ last.target.v > 0 /\ last.target.v < last.premesh.faces

\* A decimation that reduced the mesh.
C6_Witness ==
    /\ last.op = "simplify_mesh"
    /\ last.ret = TRUE
    /\ organ.mesh = last.dec
    /\ organ.mesh.faces < last.premesh.faces

\* C7: the organ's mesh is absent or a non-empty mesh, with at least one
\* vertex and one face, after construction, from_dict, load_mesh and
\* simplify_mesh.
C7_MeshAbsentOrNonEmpty ==
    \/ organ.mesh = None
    \/ /\ organ.mesh.kind = "trimesh"
       /\ ~organ.mesh.is_empty
       /\ organ.mesh.vertices >= 1
       /\ organ.mesh.faces >= 1

\* C13: Organ.from_dict loads no mesh file: the decoded organ has no mesh
\* and carries the mesh_file of the record.
C13_DecodeLoadsNoMesh ==
    last.op = "from_dict"
    => (organ.mesh = None /\ organ.mesh_file = last.data.mesh_file)

\* C8: a voxel grid the organ holds was rasterized from the mesh it holds:
\* load_mesh and a successful simplify_mesh leave no grid of an earlier mesh.
C8_GridOfCurrentMesh ==
    organ.voxel_grid # None => organ.voxel_grid.of = organ.mesh

\* C28: an Organ's voxel_grid, when present, was computed at a pitch equal
\* to the organ's current voxel_resolution.
C28_GridAtCurrentResolution ==
    organ.voxel_grid # None
    => PyEq(organ.voxel_grid.pitch, organ.voxel_resolution)

(***************************************************************************)
(* The same calls on an Organ whose mesh attribute is assigned directly,    *)
(* as the tests do (organ.mesh = ...), and direct calls of                  *)
(* mesh_utils.voxelize_mesh.                                                *)
(***************************************************************************)
PitchValues == Resolutions \cup {PyInt(1), PyInt(-1), StrVal}
MeshArguments == {None, Other} \cup Trimeshes

AssignMesh ==
    \E m \in {None} \cup Trimeshes :
        /\ organ' = [organ EXCEPT !.mesh = m]
        /\ last' = [op |-> "set", field |-> "mesh", value |-> m]
        /\ UNCHANGED <<serialVars, routeVars>>

\* When the rasterization is not reached only one choice of vx is taken.
\* is_watertight is an attribute of the mesh passed that voxelize_mesh
\* never reads; it is recorded with the call for a mesh that is rasterized.
CallVoxelizeMesh ==
    \E mesh \in MeshArguments, pitch \in PitchValues, vx \in Rasterizations,
       is_watertight \in BOOLEAN :
        LET r == voxelize_mesh(mesh, pitch, vx)
        IN  /\ r.calls = <<>> => (vx = "ok" /\ is_watertight)
            /\ last' = [op |-> "call_voxelize_mesh", mesh |-> mesh,
                        is_watertight |-> is_watertight,
                        pitch |-> pitch,
                        vx |-> IF r.calls = <<>> THEN "notcalled" ELSE vx,
                        ret |-> r.ret, calls |-> r.calls]
            /\ UNCHANGED <<routeVars, organ, bench, body, file, fresh, steps, phase>>

NextDirect ==
    \/ AssignMesh
    \/ SimplifyMesh
    \/ VoxelizeMesh
    \/ SetVoxelResolution
    \/ CallVoxelizeMesh

SpecDirect == Init /\ [][NextDirect]_vars

\* C5: simplify_mesh with a target that is zero, negative or not an integer
\* returns False, does not call the decimation and leaves the mesh as it
\* was; so it does when the organ has no mesh or an empty one.
C5_RejectedWithoutDecimation ==
    (/\ last.op = "simplify_mesh"
     /\ \/ last.premesh = None
        \/ last.premesh.is_empty
        \/ last.target.t # "int"
        \/ last.target.v <= 0)
    => /\ last.ret = FALSE
       /\ last.calls = <<>>
       /\ organ.mesh = last.premesh

\* A target of zero on an organ that holds a mesh with faces.
C5_Witness ==
    /\ last.op = "simplify_mesh"
    /\ last.premesh.kind = "trimesh" /\ last.premesh.faces > 0
    /\ last.target = PyInt(0)
    /\ last.ret = FALSE

C10_FilledOnce ==
    (last.op = "call_voxelize_mesh" /\ last.vx = "ok")
    => /\ last.calls = <<"voxelized", "fill">>
       /\ last.ret.kind = "grid"
       /\ last.ret.filled

Count(seq, x) == Cardinality({i \in DOMAIN seq : seq[i] = x})

\* C11: voxelize_mesh makes a hole-repair pass exactly once when, and only
\* when, the mesh is not watertight, before it rasterizes, and then
\* rasterizes and fills whether or not the repair helped.
C11_RepairOnceWhenNotWatertight ==
    (last.op = "call_voxelize_mesh" /\ last.calls # <<>>)
    => /\ Count(last.calls, "fill_holes") = (IF last.is_watertight THEN 0 ELSE 1)
       /\ ~last.is_watertight => last.calls[1] = "fill_holes"
       /\ Count(last.calls, "voxelized") = 1

\* C12: Organ.voxelize_mesh on an organ without a mesh calls nothing and
\* changes nothing of the organ, a voxel_grid stored earlier included.
C12_NoOpWhenMeshAbsent ==
    [][(last'.op = "voxelize_mesh" /\ organ.mesh = None)
          => (organ' = organ /\ last'.calls = <<>>)]_vars

(***************************************************************************)
(* Building an Organ tree, encoding and decoding it.  An Organ is moved     *)
(* from the bench into its parent or into the body: each Organ has one      *)
(* owner.                                                                   *)
(***************************************************************************)
AttrFields ==
    {"magnetic_susceptibility", "permeability", "permittivity", "conductivity",
     "elasticity", "density", "voxel_resolution"}
AttrValues == {PyInt(7)}

FileSystems == [{"heart.obj"} -> SerialScenarios]

BenchConstruct ==
    \E s \in Slots, n \in Names, f \in {"heart.obj", NoneStr},
       sc \in SerialScenarios :
        /\ phase = "build"
        /\ bench[s] = Free
        /\ \A q \in Slots : q < s => bench[q] # Free
        /\ steps < MaxSteps
        /\ Truthy(f) <=> sc # NoScenario
        /\ bench' = [bench EXCEPT ![s] = NewOrgan(n, f, sc)]
        /\ steps' = steps + 1
        /\ last' = [op |-> "build"]
        /\ UNCHANGED <<routeVars, organ, body, file, fresh, phase>>

SetAttribute ==
    \E s \in Slots, a \in AttrFields, x \in AttrValues :
        /\ phase = "build"
        /\ bench[s] # Free
        /\ steps < MaxSteps
        /\ bench' = [bench EXCEPT ![s] = [bench[s] EXCEPT ![a] = x]]
        /\ steps' = steps + 1
        /\ last' = [op |-> "build"]
        /\ UNCHANGED <<routeVars, organ, body, file, fresh, phase>>

AddSubOrgan ==
    \E p \in Slots, c \in Slots :
        /\ phase = "build"
        /\ p # c
        /\ bench[p] # Free
        /\ bench[c] # Free
        /\ bench' = [bench EXCEPT ![p] = add_sub_organ(bench[p], bench[c]),
                                  ![c] = Free]
        /\ last' = [op |-> "build"]
        /\ UNCHANGED <<routeVars, organ, body, file, fresh, steps, phase>>

AddOrgan ==
    \E s \in Slots :
        /\ phase = "build"
        /\ bench[s] # Free
        /\ body' = add_organ(body, bench[s])
        /\ bench' = [bench EXCEPT ![s] = Free]
        /\ last' = [op |-> "build"]
        /\ UNCHANGED <<routeVars, organ, file, fresh, steps, phase>>

\* Organ.from_dict(o.to_dict()) of an Organ on the bench.
EncodeDecode ==
    \E s \in Slots, fs \in FileSystems :
        /\ phase = "build"
        /\ bench[s] # Free
        /\ last' = [op |-> "round_trip", src |-> bench[s],
                    out |-> from_dict(to_dict(bench[s]), fs)]
        /\ phase' = "done"
        /\ UNCHANGED <<routeVars, organ, bench, body, file, fresh, steps>>

SaveToFile ==
    \E io \in {"ok", "ioerror"} :
        /\ phase = "build"
        /\ file' = save_to_file(body, file, io)
        /\ last' = [op |-> "save_to_file", io |-> io]
        /\ phase' = "saved"
        /\ UNCHANGED <<routeVars, organ, bench, body, fresh, steps>>

LoadFromFile ==
    \E io \in {"ok", "ioerror"}, fs \in FileSystems :
        /\ phase = "saved"
        /\ fresh' = load_from_file(fresh, file, io, fs)
        /\ last' = [op |-> "load_from_file", io |-> io,
                    saved |-> (last.io = "ok")]
        /\ phase' = "done"
        /\ UNCHANGED <<routeVars, organ, bench, body, file, steps>>

NextSerial ==
    \/ BenchConstruct
    \/ SetAttribute
    \/ AddSubOrgan
    \/ AddOrgan
    \/ EncodeDecode
    \/ SaveToFile
    \/ LoadFromFile

SpecSerial == Init /\ [][NextSerial]_vars


(***************************************************************************)
(* Loading model record files that were not written by save_to_file: the   *)
(* file is put in place with any of a few documents, well-formed records    *)
(* and malformed ones, one of them stored under a key that is not its      *)
(* name, and loaded into the second body.                                  *)
(***************************************************************************)
NonDict == [kind |-> "nondict"]

Record(name, elasticity, voxel_resolution, sub_organs) ==
    [kind |-> "dict", name |-> name, mesh_file |-> NoneStr,
     voxel_resolution |-> voxel_resolution,
     properties |-> [interpolate_properties(OrganFields(name, NoneStr))
                        EXCEPT !.elasticity = elasticity],
     sub_organs |-> sub_organs]

SubRecords ==
    {EmptyDict,
     [n \in {"Ventricle"} |-> Record("Ventricle", PyFloat(0), PyFloat(1), EmptyDict)],
     [n \in {"Ventricle"} |-> NonDict],
     [n \in {"Ventricle"} |-> Record(MissingKey, PyFloat(0), PyFloat(1), EmptyDict)]}

RecordsFor(k) ==
    {NonDict,
     Record(MissingKey, PyFloat(0), PyFloat(1), EmptyDict),
     Record(k, StrVal, PyFloat(1), EmptyDict),
     Record(k, PyFloat(0), StrVal, EmptyDict),
     Record("Spleen", PyInt(7), Missing, EmptyDict)}
    \cup {Record(k, PyInt(7), Missing, subs) : subs \in SubRecords}

RecordKeys == {"Heart", "Liver"}

Documents ==
    UNION {{d \in [K -> UNION {RecordsFor(k) : k \in K}] :
               \A k \in K : d[k] \in RecordsFor(k)} : K \in SUBSET RecordKeys}

\* No mesh file exists: os.path.isfile is false for every path.
NoMeshFiles == [f \in MeshFiles |-> NoScenario]

PutRecordFile ==
    \E f \in {NoFile, Garbage, NonObject} \cup {JsonFile(d) : d \in Documents} :
        /\ file' = f
        /\ last' = [op |-> "put_file"]
        /\ UNCHANGED <<routeVars, organ, bench, body, fresh, steps, phase>>

LoadRecordFile ==
    \E io \in {"ok", "ioerror"} :
        /\ fresh' = load_from_file(fresh, file, io, NoMeshFiles)
        /\ last' = [op |-> "load_record_file",
                    io |-> IF file.kind = "missing" THEN "notcalled" ELSE io,
                    had |-> fresh # EmptyDict, held |-> DOMAIN fresh]
        /\ UNCHANGED <<routeVars, organ, bench, body, file, steps, phase>>

NextDecode ==
    \/ PutRecordFile
    \/ LoadRecordFile

SpecDecode == Init /\ [][NextDecode]_vars

RECURSIVE WellFormed(_)
WellFormed(r) ==
    /\ r.kind = "dict"
    /\ r.name # MissingKey
    /\ \A f \in DOMAIN r.properties :
           r.properties[f] = Missing \/ IsNumber(r.properties[f])
    /\ r.voxel_resolution = Missing \/ IsNumber(r.voxel_resolution)
    /\ \A n \in DOMAIN r.sub_organs : WellFormed(r.sub_organs[n])

\* C14: load_from_file skips every malformed organ or sub-organ record and
\* decodes every well-formed record of the file, whatever its siblings are.
C14_MalformedRecordsSkipped ==
    (last.op = "load_record_file" /\ last.io = "ok" /\ file.kind = "json")
    => \A k \in DOMAIN file.doc :
           WellFormed(file.doc[k])
           => (k \in DOMAIN fresh /\ fresh[k].name = file.doc[k].name)

\* C15: load_from_file of a file that is missing, cannot be read or does
\* not parse as a record leaves the body without organs, whatever it held.
C15_FailedLoadEmptiesBody ==
    (/\ last.op = "load_record_file"
     /\ \/ file.kind \in {"missing", "garbage", "nonobject"}
        \/ last.io = "ioerror")
    => fresh = EmptyDict

\* A body that held organs, after loading a file that is no JSON.
C15_Witness ==
    /\ last.op = "load_record_file"
    /\ last.had
    /\ file.kind = "garbage"
    /\ fresh = EmptyDict

\* What the file holds for this load: the records that are objects, whether
\* the load fails, and the organs a load has to leave in the body.
ObjectRecords == {k \in DOMAIN file.doc : file.doc[k].kind = "dict"}

LoadFails ==
    \/ file.kind # "json"
    \/ last.io = "ioerror"
    \/ \E k \in ObjectRecords : ~from_dict(file.doc[k], NoMeshFiles).ok

DecodedFromFile ==
    IF LoadFails
    THEN EmptyDict
    ELSE [k \in ObjectRecords |-> from_dict(file.doc[k], NoMeshFiles).organ]

\* C25: after load_from_file the body holds exactly the organs decoded from
\* the file during this call, none when the load failed, and nothing of
\* what it held before.
C25_BodyRebuiltWholesale ==
    last.op = "load_record_file" => fresh = DecodedFromFile

\* A body that held only Liver, after a successful load of a file that
\* holds only Heart.
C25_Witness ==
    /\ last.op = "load_record_file"
    /\ last.held = {"Liver"}
    /\ file.kind = "json"
    /\ ~LoadFails
    /\ DOMAIN fresh = {"Heart"}

RECURSIVE KeyedByName(_)
KeyedByName(d) ==
    \A k \in DOMAIN d : d[k].name = k /\ KeyedByName(d[k].sub_organs)

\* C27: after load_from_file of any parseable file every entry of
\* HumanBody.organs, and of the sub_organs of every organ in it, is stored
\* under the organ's own name.
C27_KeyedByOwnName ==
    last.op = "load_record_file" => KeyedByName(fresh)

(***************************************************************************)
(* dicom_utils.load_dicom_volume.  A directory maps file names to what      *)
(* pydicom.dcmread makes of the file:                                       *)
(*   read       "ok", or "raise" when dcmread raises                        *)
(*   hasIPP     the dataset has the attribute ImagePositionPatient          *)
(*   ipp        "list" when it is a list or tuple of at least 3 items,      *)
(*              "other" otherwise                                           *)
(*   z          ImagePositionPatient[2]                                     *)
(*   hasPixels  the dataset has the attribute PixelData                     *)
(*   pixels     "ok", or "raise" when reading pixel_array raises            *)
(*   shape      pixel_array.shape, one of a few in-plane shapes             *)
(* The result is None, a volume (the slices stacked, by file name, and its  *)
(* shape: the in-plane shape and the number of slices), or Raise when an    *)
(* exception leaves the function.                                           *)
(***************************************************************************)
Dataset(read, hasIPP, ipp, z, hasPixels, pixels, shape) ==
    [read |-> read, hasIPP |-> hasIPP, ipp |-> ipp, z |-> z,
     hasPixels |-> hasPixels, pixels |-> pixels, shape |-> shape]

Unreadable == Dataset("raise", FALSE, "other", StrVal, FALSE, "raise", 0)
NoPosition == Dataset("ok", FALSE, "other", StrVal, TRUE, "ok", 1)
NoPixelData == Dataset("ok", TRUE, "list", PyFloat(0), FALSE, "raise", 0)
BadPosition == Dataset("ok", TRUE, "other", StrVal, TRUE, "ok", 1)
Slice(z, pixels, shape) == Dataset("ok", TRUE, "list", z, TRUE, pixels, shape)

Positions == {PyFloat(0), PyFloat(1), PyInt(2)}
Shapes == {1, 2}

Datasets ==
    {Unreadable, NoPosition, NoPixelData, BadPosition}
    \cup {Slice(z, "ok", sh) : z \in Positions, sh \in Shapes}
    \cup {Slice(StrVal, "ok", 1), Slice(PyFloat(0), "raise", 0)}

\* File names in the order sorted() gives them (upper case first).
SortedNames == <<"C.DCM", "a.dcm", "b.dcm", "notes.txt">>

\* f.lower().endswith('.dcm')
EndsWithDcm(f) == f \in {"C.DCM", "a.dcm", "b.dcm"}

Range(seq) == {seq[i] : i \in DOMAIN seq}

\* sorted([f for f in os.listdir(dicom_folder) if f.lower().endswith('.dcm')])
sorted_dcm(listing) ==
    LET Keep(f) == f \in Range(listing) /\ EndsWithDcm(f)
    IN  SelectSeq(SortedNames, Keep)

\* list.sort(key=...): a stable sort, ascending in the key.
RECURSIVE InsertByKey(_, _, _)
InsertByKey(sorted, x, key) ==
    IF sorted = <<>>
    THEN <<x>>
    ELSE IF key[x] < key[sorted[Len(sorted)]]
    THEN Append(InsertByKey(SubSeq(sorted, 1, Len(sorted) - 1), x, key),
                sorted[Len(sorted)])
    ELSE Append(sorted, x)

SortByKeyKeepingOrder(seq, key) == seq

RECURSIVE SortByKey(_, _)
SortByKey(seq, key) ==
    IF seq = <<>>
    THEN <<>>
    ELSE InsertByKey(SortByKey(SubSeq(seq, 1, Len(seq) - 1), key),
                     seq[Len(seq)], key)

Volume(slices, shape) ==
    [kind |-> "volume", slices |-> slices, shape |-> <<shape, Len(slices)>>]

\* Lines 90-95: the shape of every slice is compared with that of the
\* first; reading pixel_array is outside every try block.
ShapesNotCompared(dir, files, k, first_slice_shape) == "same"

RECURSIVE CompareShapes(_, _, _, _)
CompareShapes(dir, files, k, first_slice_shape) ==
    IF k > Len(files)
    THEN "same"
    ELSE IF dir[files[k]].pixels = "raise"
    THEN "raise"
    ELSE IF dir[files[k]].shape # first_slice_shape
    THEN "differ"
    ELSE CompareShapes(dir, files, k + 1, first_slice_shape)

\* Lines 37-49, the datasets read and kept: a file that dcmread raises on,
\* or whose dataset lacks ImagePositionPatient or PixelData, is skipped.
ReadAllOrNothing(dir, filenames) ==
    LET Usable(f) == dir[f].read = "ok" /\ dir[f].hasIPP /\ dir[f].hasPixels
    IN  IF \A i \in DOMAIN filenames : Usable(filenames[i])
        THEN filenames
        ELSE <<>>

ReadAll(dir, filenames) ==
    LET Usable(f) == dir[f].read = "ok" /\ dir[f].hasIPP /\ dir[f].hasPixels
    IN  SelectSeq(filenames, Usable)

load_dicom_volume(isdir, dir, listing, stack) ==
    IF ~isdir
    THEN None
    ELSE LET filenames == sorted_dcm(listing)
             dicom_files == ReadAll(dir, filenames)
             HasList(f) == dir[f].ipp = "list"
             valid_files_for_sorting == SelectSeq(dicom_files, HasList)
         IN  IF filenames = <<>>
             THEN None
             ELSE IF dicom_files = <<>>
             THEN None
             ELSE IF valid_files_for_sorting = <<>>
             THEN None
             ELSE IF \E f \in Range(valid_files_for_sorting) : ~FloatOk(dir[f].z)
             THEN None
             ELSE LET key == [f \in Range(valid_files_for_sorting)
                                 |-> float(dir[f].z).v]
                      files == SortByKey(valid_files_for_sorting, key)
                  IN  IF dir[files[1]].pixels = "raise"
                      THEN Raise
                      ELSE LET cmp == CompareShapes(dir, files, 2,
                                                    dir[files[1]].shape)
                           IN  IF cmp = "raise"
                               THEN Raise
                               ELSE IF cmp = "differ"
                               THEN None
                               ELSE IF stack = "raise"
                               THEN None
                               ELSE Volume(files, dir[files[1]].shape)

Directories ==
    UNION ({[K -> Datasets] : K \in SUBSET {"C.DCM", "a.dcm", "b.dcm"}}
           \cup {[K -> {Slice(PyFloat(0), "ok", 1)}] :
                     K \in {{"notes.txt"}, {"a.dcm", "notes.txt"}}})

Listings(S) ==
    {q \in [1..Cardinality(S) -> S] : \A x \in S : \E i \in DOMAIN q : q[i] = x}

\* A call: the directory, the order in which os.listdir returns its names,
\* and what np.stack does.  np.stack raising is an outcome only of a call
\* that reaches it.
InitDicom ==
    /\ \E isdir \in BOOLEAN, dir \in Directories, stack \in {"ok", "raise"} :
           \E listing \in Listings(DOMAIN dir) :
               /\ isdir \/ dir = EmptyDict
               /\ stack = "raise"
                     => load_dicom_volume(isdir, dir, listing, "ok").kind = "volume"
               /\ last = [op |-> "call", isdir |-> isdir, dir |-> dir,
                          listing |-> listing, stack |-> stack]
    /\ organ = OrganFields("Heart", NoneStr)
    /\ bench = [s \in Slots |-> Free]
    /\ body = EmptyDict
    /\ fresh = EmptyDict
    /\ file = NoFile
    /\ steps = 0
    /\ phase = "build"
    /\ requests = [r \in RequestIds |-> NotReceived]
    /\ uploads = EmptyFolder

LoadDicomVolume ==
    /\ last.op = "call"
    /\ last' = [op |-> "load_dicom_volume", isdir |-> last.isdir,
                dir |-> last.dir, listing |-> last.listing,
                stack |-> last.stack,
                ret |-> load_dicom_volume(last.isdir, last.dir, last.listing,
                                          last.stack)]
    /\ UNCHANGED <<routeVars, organ, bench, body, file, fresh, steps, phase>>

SpecDicom == InitDicom /\ [][LoadDicomVolume]_vars

\* The candidate files of the directory of the last call, and those of
\* them that are read and carry a position list and pixel data.
Candidates_dcm == {f \in DOMAIN last.dir : f \in {"C.DCM", "a.dcm", "b.dcm"}}

ValidSlices ==
    {f \in Candidates_dcm :
        /\ last.dir[f].read = "ok"
        /\ last.dir[f].hasIPP /\ last.dir[f].ipp = "list"
        /\ last.dir[f].hasPixels}

NameRank(f) == CHOOSE i \in DOMAIN SortedNames : SortedNames[i] = f

\* C16: the slices of the volume returned are in ascending order of
\* ImagePositionPatient[2], index 1 holding the lowest, slices of equal
\* coordinate in file-name order: the order in which the directory lists
\* the files has no part in it.
C16_AscendingStackingOrder ==
    (last.op = "load_dicom_volume" /\ last.ret.kind = "volume")
    => \A i, j \in DOMAIN last.ret.slices :
           i < j =>
              LET zi == last.dir[last.ret.slices[i]].z.v
                  zj == last.dir[last.ret.slices[j]].z.v
              IN  \/ zi < zj
                  \/ /\ zi = zj
                     /\ NameRank(last.ret.slices[i]) < NameRank(last.ret.slices[j])

\* Three slices listed, and named, in another order than they are stacked.
C16_Witness ==
    /\ last.op = "load_dicom_volume"
    /\ last.ret.kind = "volume"
    /\ Len(last.ret.slices) = 3
    /\ last.ret.slices[1] = "b.dcm"
    /\ last.listing[1] # "b.dcm"

\* C17: load_dicom_volume returns None when the directory does not exist,
\* when it holds no .dcm file, when no file has a valid position, when the
\* valid slices differ in shape, and when a stacking coordinate is no
\* number.  (The function has no statement that writes a file.)
C17_NoneOnFailure ==
    last.op = "load_dicom_volume"
    => /\ ~last.isdir => last.ret = None
       /\ Candidates_dcm = {} => last.ret = None
       /\ (\A f \in Candidates_dcm :
               ~(last.dir[f].read = "ok" /\ last.dir[f].hasIPP
                   /\ last.dir[f].ipp = "list"))
            => last.ret = None
       /\ (/\ \A h \in ValidSlices :
                  last.dir[h].pixels = "ok" /\ last.dir[h].z.t # "str"
            /\ \E f, g \in ValidSlices : last.dir[f].shape # last.dir[g].shape)
            => last.ret = None
       /\ (\E f \in ValidSlices : last.dir[f].z.t = "str") => last.ret = None

\* Two readable slices of different in-plane shapes.
C17_Witness ==
    /\ last.op = "load_dicom_volume"
    /\ \E f, g \in ValidSlices :
           /\ last.dir[f].shape # last.dir[g].shape
           /\ last.dir[f].pixels = "ok" /\ last.dir[g].pixels = "ok"
    /\ last.ret = None

\* C18: files that cannot be read or lack position or pixel data are
\* skipped: when the remaining slices are at least one, with numeric
\* coordinates, readable pixels and one shape, the result is the volume of
\* exactly those slices, of that shape and that many slices.
C18_UnusableFilesSkipped ==
    (/\ last.op = "load_dicom_volume"
     /\ last.stack = "ok"
     /\ ValidSlices # {}
     /\ \A h \in ValidSlices :
           last.dir[h].pixels = "ok" /\ last.dir[h].z.t # "str"
     /\ \A f, g \in ValidSlices : last.dir[f].shape = last.dir[g].shape)
    => /\ last.ret.kind = "volume"
       /\ {last.ret.slices[i] : i \in DOMAIN last.ret.slices} = ValidSlices
       /\ Len(last.ret.slices) = Cardinality(ValidSlices)
       /\ \A f \in ValidSlices :
              last.ret.shape = <<last.dir[f].shape, Cardinality(ValidSlices)>>

\* A volume of two slices from a directory with a file dcmread raises on.
C18_Witness ==
    /\ last.op = "load_dicom_volume"
    /\ last.ret.kind = "volume"
    /\ Len(last.ret.slices) = 2
    /\ \E f \in Candidates_dcm : last.dir[f].read = "raise"

\* C19: load_dicom_volume never raises: it returns a volume or None for
\* every directory, slices whose pixel data cannot be decoded included.
C19_NeverRaises ==
    last.op = "load_dicom_volume" => last.ret # Raise

ListingRank(f) == CHOOSE i \in DOMAIN last.listing : last.listing[i] = f

\* C26: slices of the same stacking coordinate keep, in the volume, the
\* order in which the files were presented to the function, the order of
\* the directory listing.
C26_TiesKeepPresentedOrder ==
    (last.op = "load_dicom_volume" /\ last.ret.kind = "volume")
    => \A i \in DOMAIN last.ret.slices, j \in DOMAIN last.ret.slices :
           (/\ i < j
            /\ PyEq(last.dir[last.ret.slices[i]].z,
                    last.dir[last.ret.slices[j]].z))
           => ListingRank(last.ret.slices[i]) < ListingRank(last.ret.slices[j])

(***************************************************************************)
(* dicom_utils.volume_to_mesh.  A volume is None or an array of ndim        *)
(* dimensions whose values range from lo to hi.  marching is what           *)
(* measure.marching_cubes does: it raises, or returns arrays of verts and   *)
(* faces (given by their lengths), or something that is no array;           *)
(* constructed is what trimesh.Trimesh(...) does, cleaned the mesh after    *)
(* remove_unreferenced_vertices() and remove_degenerate_faces().  The      *)
(* function never inspects the values of the volume: on an array holding   *)
(* NaN or Inf marching_cubes raises or returns whatever it computes.       *)
(***************************************************************************)
Array(ndim, lo, hi) ==
    [kind |-> "ndarray", ndim |-> ndim, lo |-> lo, hi |-> hi, finite |-> TRUE]

Intensities == 0..2

Volumes ==
    {[kind |-> "none", ndim |-> 0, lo |-> 0, hi |-> 0, finite |-> TRUE],
     Array(2, 0, 2),
     \* a 3-D array that holds NaN or Inf among values from 0 to 2
     [Array(3, 0, 2) EXCEPT !.finite = FALSE]}
    \cup {Array(3, r[1], r[2]) :
             r \in {q \in Intensities \X Intensities : q[1] <= q[2]}}

Surface(verts, faces) == [kind |-> "surface", verts |-> verts, faces |-> faces]

\* The iso-surface exists only where the values cross the threshold.
SurfacePossible(volume, threshold) ==
    volume.lo < volume.hi /\ volume.lo <= threshold /\ threshold <= volume.hi

Marchings(volume, threshold) ==
    IF ~volume.finite \/ SurfacePossible(volume, threshold)
    THEN {Raise, Other} \cup {Surface(v, f) : v \in {0, 3}, f \in 0..MaxFaces}
    ELSE {Raise, Surface(0, 0)}

ConstructedMeshes == {Tm(4, f) : f \in 1..MaxFaces}
CleanedMeshes == {Tm(4, f) : f \in 0..MaxFaces} \cup {VertexOnly(4)}

\* isinstance(verts, np.ndarray) and verts.shape[0] > 0, and so for faces
SurfaceFound(marching) ==
    marching.kind = "surface" /\ marching.verts > 0 /\ marching.faces > 0

volume_to_mesh(volume, threshold, marching, constructed, cleaned) ==
    IF volume.kind # "ndarray" \/ volume.ndim # 3
    THEN None
    ELSE IF marching = Raise
    THEN None
    ELSE IF ~SurfaceFound(marching)
    THEN None
    ELSE IF constructed = Raise
    THEN None
    ELSE IF constructed.vertices > 0 /\ constructed.faces > 0
    THEN IF cleaned = Raise
         THEN None
         ELSE IF cleaned.is_empty THEN None ELSE cleaned
    ELSE IF constructed.is_empty THEN None ELSE constructed

InitSurface ==
    /\ \E volume \in Volumes, threshold \in Intensities :
           \E marching \in Marchings(volume, threshold) \cup {NotCalled},
              constructed \in ConstructedMeshes \cup {Raise, NotCalled},
              cleaned \in CleanedMeshes \cup {Raise, NotCalled} :
               /\ marching = NotCalled <=> (volume.kind # "ndarray" \/ volume.ndim # 3)
               /\ constructed = NotCalled <=> ~SurfaceFound(marching)
               /\ cleaned = NotCalled <=> constructed \in {Raise, NotCalled}
               /\ last = [op |-> "call", volume |-> volume,
                          threshold |-> threshold, marching |-> marching,
                          constructed |-> constructed, cleaned |-> cleaned]
    /\ organ = OrganFields("Heart", NoneStr)
    /\ bench = [s \in Slots |-> Free]
    /\ body = EmptyDict
    /\ fresh = EmptyDict
    /\ file = NoFile
    /\ steps = 0
    /\ phase = "build"
    /\ requests = [r \in RequestIds |-> NotReceived]
    /\ uploads = EmptyFolder

VolumeToMesh ==
    /\ last.op = "call"
    /\ last' = [op |-> "volume_to_mesh", volume |-> last.volume,
                threshold |-> last.threshold, marching |-> last.marching,
                constructed |-> last.constructed, cleaned |-> last.cleaned,
                ret |-> volume_to_mesh(last.volume, last.threshold,
                                       last.marching, last.constructed,
                                       last.cleaned)]
    /\ UNCHANGED <<routeVars, organ, bench, body, file, fresh, steps, phase>>

SpecSurface == InitSurface /\ [][VolumeToMesh]_vars

\* C20: volume_to_mesh returns None or a mesh with at least one vertex and
\* one face; it returns None for a volume that is uniform or wholly on one
\* side of the threshold, and when the extraction or the clean-up leaves no
\* vertex or no face.
C20_NoneOrNonEmptyMesh ==
    last.op = "volume_to_mesh"
    => /\ \/ last.ret = None
          \/ /\ last.ret.kind = "trimesh"
             /\ last.ret.vertices >= 1
             /\ last.ret.faces >= 1
       /\ (\/ last.volume.lo = last.volume.hi
           \/ last.threshold < last.volume.lo
           \/ last.threshold > last.volume.hi) => last.ret = None

\* C21: a volume holding NaN or Inf is reported as an input-validation
\* error, an outcome that differs from the None returned when a valid volume
\* has no surface (and that is no mesh either).
C21_PathologicalVolumeReported ==
    (last.op = "volume_to_mesh" /\ ~last.volume.finite)
    => (last.ret # None /\ last.ret.kind # "trimesh")

(***************************************************************************)
(* Organs as objects.  A Python dict holds references: the same Organ can   *)
(* be stored in several dicts, and in its own.  Here bench is the heap,     *)
(* bench[s] the Organ at address s, whose sub_organs maps a name to the     *)
(* address of the stored Organ; body is HumanBody.organs, from names to     *)
(* addresses.                                                               *)
(***************************************************************************)
Del(d, k) == [y \in (DOMAIN d) \ {k} |-> d[y]]

Organ_add_sub_organ(heap, p, c) ==
    [heap EXCEPT ![p].sub_organs = Put(@, heap[c].name, c)]

Organ_remove_sub_organ(heap, p, name) ==
    IF name \in DOMAIN heap[p].sub_organs
    THEN [heap EXCEPT ![p].sub_organs = Del(@, name)]
    ELSE heap

HumanBody_add_organ(organs, heap, c) == Put(organs, heap[c].name, c)

HumanBody_remove_organ(organs, name) ==
    IF name \in DOMAIN organs THEN Del(organs, name) ELSE organs

NewObject ==
    \E s \in Slots, n \in Names :
        /\ bench[s] = Free
        /\ \A q \in Slots : q < s => bench[q] # Free
        /\ bench' = [bench EXCEPT ![s] = OrganFields(n, NoneStr)]
        /\ last' = [op |-> "new"]
        /\ UNCHANGED <<routeVars, organ, body, file, fresh, steps, phase>>

RefAddSubOrgan ==
    \E p \in Slots, c \in Slots :
        /\ bench[p] # Free
        /\ bench[c] # Free
        /\ bench' = Organ_add_sub_organ(bench, p, c)
        /\ last' = [op |-> "add_sub_organ", parent |-> p, child |-> c,
                    name |-> bench[c].name,
                    present |-> bench[c].name \in DOMAIN bench[p].sub_organs]
        /\ UNCHANGED <<routeVars, organ, body, file, fresh, steps, phase>>

RefRemoveSubOrgan ==
    \E p \in Slots, n \in Names :
        /\ bench[p] # Free
        /\ bench' = Organ_remove_sub_organ(bench, p, n)
        /\ last' = [op |-> "remove_sub_organ", parent |-> p, child |-> 0,
                    name |-> n, present |-> n \in DOMAIN bench[p].sub_organs]
        /\ UNCHANGED <<routeVars, organ, body, file, fresh, steps, phase>>

RefAddOrgan ==
    \E c \in Slots :
        /\ bench[c] # Free
        /\ body' = HumanBody_add_organ(body, bench, c)
        /\ last' = [op |-> "add_organ", parent |-> 0, child |-> c,
                    name |-> bench[c].name,
                    present |-> bench[c].name \in DOMAIN body]
        /\ UNCHANGED <<routeVars, organ, bench, file, fresh, steps, phase>>

RefRemoveOrgan ==
    \E n \in Names :
        /\ body' = HumanBody_remove_organ(body, n)
        /\ last' = [op |-> "remove_organ", parent |-> 0, child |-> 0,
                    name |-> n, present |-> n \in DOMAIN body]
        /\ UNCHANGED <<routeVars, organ, bench, file, fresh, steps, phase>>

NextRefs ==
    \/ NewObject
    \/ RefAddSubOrgan
    \/ RefRemoveSubOrgan
    \/ RefAddOrgan
    \/ RefRemoveOrgan

SpecRefs == Init /\ [][NextRefs]_vars

\* What a store of x under key k makes of dict d, and a removal of key k.
StoredUnder(d, e, k, x) ==
    /\ DOMAIN e = (DOMAIN d) \cup {k}
    /\ e[k] = x
    /\ \A y \in (DOMAIN d) \ {k} : e[y] = d[y]

RemovedFrom(d, e, k) ==
    /\ DOMAIN e = (DOMAIN d) \ {k}
    /\ \A y \in DOMAIN e : e[y] = d[y]

OthersUnchanged(p) == \A q \in Slots \ {p} : bench'[q] = bench[q]

\* C22: add_sub_organ and add_organ store the organ under its name,
\* replacing the organ stored under that name and leaving every other entry
\* as it was; remove_sub_organ and remove_organ delete the named entry only
\* and change nothing when the name is absent.
C22_StoreAndRemoveByName ==
    [][/\ last'.op = "add_sub_organ"
          => /\ StoredUnder(bench[last'.parent].sub_organs,
                            bench'[last'.parent].sub_organs,
                            bench[last'.child].name, last'.child)
             /\ bench'[last'.parent].name = bench[last'.parent].name
             /\ OthersUnchanged(last'.parent)
             /\ body' = body
       /\ last'.op = "add_organ"
          => /\ StoredUnder(body, body', bench[last'.child].name, last'.child)
             /\ bench' = bench
       /\ last'.op = "remove_sub_organ"
          => /\ RemovedFrom(bench[last'.parent].sub_organs,
                            bench'[last'.parent].sub_organs, last'.name)
             /\ ~last'.present => bench' = bench
             /\ OthersUnchanged(last'.parent)
             /\ body' = body
       /\ last'.op = "remove_organ"
          => /\ RemovedFrom(body, body', last'.name)
             /\ ~last'.present => body' = body
             /\ bench' = bench]_vars

\* An organ replaced another stored under its name while the body holds a
\* second entry.
C22_Witness ==
    /\ last.op = "add_organ"
    /\ last.present
    /\ Cardinality(DOMAIN body) = 2
    /\ body[last.name] = last.child

\* The organs stored in a dict, and the organs reachable from a set of
\* organs through sub_organs in one or more steps.
Stored(d) == {d[k] : k \in DOMAIN d}

Children(S) == UNION {Stored(bench[s].sub_organs) : s \in S}

RECURSIVE Descendants(_)
Descendants(S) ==
    IF Children(S) \subseteq S THEN S ELSE Descendants(S \cup Children(S))

Owners(c) ==
    {p \in Slots : bench[p] # Free /\ c \in Stored(bench[p].sub_organs)}
    \cup (IF c \in Stored(body) THEN {0} ELSE {})

\* C23: after any sequence of add_sub_organ, remove_sub_organ, add_organ and
\* remove_organ calls no organ is reachable from itself through sub_organs
\* and no organ is held by more than one owner.
C23_OwnershipIsForest ==
    \A c \in Slots :
        bench[c] # Free
        => /\ c \notin Descendants(Children({c}))
           /\ Cardinality(Owners(c)) <= 1

(***************************************************************************)
(* mesh_routes.upload_dicom_files.  Every request stages its slices in a    *)
(* temporary directory of its own (tempfile.mkdtemp) and exports the mesh   *)
(* to the one file dicom_converted_mesh.obj of the upload folder.  A        *)
(* request is handled by a thread of its own; the steps of two requests     *)
(* interleave between their calls on the file system:                       *)
(*   "idle"     not received                                                *)
(*   "process"  slices staged, before load_dicom_volume                     *)
(*   "export"   mesh generated, before mesh.export                          *)
(*   "except"   in the except block                                         *)
(*   "finally"  in the finally block                                        *)
(*   "done"     response sent, with its status                              *)
(* created records that mkdtemp ran, rmtree whether a shutil.rmtree of the  *)
(* request failed.  A generated file holds the mesh of one request, whole   *)
(* or partly written.                                                       *)
(***************************************************************************)
Written(r) == [kind |-> "mesh", of |-> r]

\* shutil.rmtree(dicom_temp_subdir_path)
RmtreeSkipped(dirs, r, rmtree) == dirs
Rmtree(dirs, r, rmtree) ==
    IF rmtree = "ok" THEN [dirs EXCEPT ![r] = FALSE] ELSE dirs

\* lines 119-152: the request is checked, the directory made, the files
\* saved; with no file saved the directory is removed and 400 returned.
UploadReceive(r) ==
    \E part \in {"missing", "empty", "files"}, saved \in {0, 1},
       rmtree \in {"ok", "raise"} :
        /\ requests[r].pc = "idle"
        /\ part # "files" => (saved = 0 /\ rmtree = "ok")
        /\ saved > 0 => rmtree = "ok"
        /\ IF part # "files"
           THEN /\ requests' = [requests EXCEPT ![r].pc = "done",
                                                ![r].status = 400]
                /\ UNCHANGED uploads
           ELSE IF saved = 0
           THEN /\ requests' = [requests EXCEPT
                                   ![r].pc = "done",
                                   ![r].created = TRUE,
                                   ![r].rmtree = rmtree,
                                   ![r].status = IF rmtree = "ok" THEN 400 ELSE 500]
                /\ uploads' = [uploads EXCEPT
                                  !.dirs = Rmtree([@ EXCEPT ![r] = TRUE], r, rmtree)]
           ELSE /\ requests' = [requests EXCEPT ![r].pc = "process",
                                                ![r].created = TRUE]
                /\ uploads' = [uploads EXCEPT !.dirs[r] = TRUE]
        /\ last' = [op |-> "upload_receive", r |-> r]
        /\ UNCHANGED <<organ, bench, body, file, fresh, steps, phase>>

\* lines 160-170: load_dicom_volume and volume_to_mesh; None from either,
\* an empty mesh or an exception lead to the except block.
UploadGenerate(r) ==
    \E volume \in {"volume", "none", "raise"},
       mesh \in {Tm(4, 0), Tm(4, 1), VertexOnly(4), None, NotCalled} :
        /\ requests[r].pc = "process"
        /\ mesh = NotCalled <=> volume # "volume"
        /\ requests' = [requests EXCEPT
                           ![r].pc = IF mesh \in {None, NotCalled} \/ mesh.is_empty
                                     THEN "except" ELSE "export"]
        /\ last' = [op |-> "upload_generate", r |-> r]
        /\ UNCHANGED <<uploads, organ, bench, body, file, fresh, steps, phase>>

\* line 173: mesh.export(generated_mesh_save_path), which may fail before
\* or after it has begun to write the file.
UploadExport(r) ==
    \E export \in {"ok", "raise", "partial"} :
        /\ requests[r].pc = "export"
        /\ uploads' = [uploads EXCEPT
                          !.generated = CASE export = "ok" -> Written(r)
                                          [] export = "partial" -> [kind |-> "partial", of |-> r]
                                          [] OTHER -> @]
        /\ requests' = [requests EXCEPT
                           ![r].pc = IF export = "ok" THEN "finally" ELSE "except",
                           ![r].status = IF export = "ok" THEN 200 ELSE 0]
        /\ last' = [op |-> "upload_export", r |-> r]
        /\ UNCHANGED <<organ, bench, body, file, fresh, steps, phase>>

\* lines 181-186: the generated file is removed when it exists.
UploadExcept(r) ==
    /\ requests[r].pc = "except"
    /\ uploads' = [uploads EXCEPT !.generated = Absent]
    /\ requests' = [requests EXCEPT ![r].pc = "finally", ![r].status = 500]
    /\ last' = [op |-> "upload_except", r |-> r]
    /\ UNCHANGED <<organ, bench, body, file, fresh, steps, phase>>

\* lines 187-193: the temporary directory is removed; a failure is logged.
UploadFinally(r) ==
    \E rmtree \in {"ok", "raise"} :
        /\ requests[r].pc = "finally"
        /\ uploads' = [uploads EXCEPT !.dirs = Rmtree(@, r, rmtree)]
        /\ requests' = [requests EXCEPT ![r].pc = "done",
                                        ![r].rmtree = rmtree]
        /\ last' = [op |-> "upload_finally", r |-> r]
        /\ UNCHANGED <<organ, bench, body, file, fresh, steps, phase>>

NextUpload ==
    \E r \in RequestIds :
        \/ UploadReceive(r)
        \/ UploadGenerate(r)
        \/ UploadExport(r)
        \/ UploadExcept(r)
        \/ UploadFinally(r)

SpecUpload == Init /\ [][NextUpload]_vars

C29_OwnMeshUnderReturnedName ==
    \A r \in RequestIds :
        (requests[r].pc = "done" /\ requests[r].status = 200)
        => uploads.generated = Written(r)

(***************************************************************************)
(* mesh_routes.get_model_file.  A path is the sequence of its components,   *)
(* a component and a path written out are sequences of characters.  The     *)
(* <path:filename> of the route has no leading slash, so os.path.join       *)
(* appends its components to those of the upload folder.  The upload        *)
(* folder is /t/u; beside it lies the directory /t/u2.  files are the       *)
(* paths at which a regular file exists.  The secure_filename comparison of *)
(* lines 59-63 only prints a warning.                                       *)
(***************************************************************************)
DotDot == <<".", ".">>

UPLOAD_FOLDER == <<<<"t">>, <<"u">>>>

\* os.path.normpath of an absolute path: ".." steps back, not above the root.
RECURSIVE normpath_from(_, _)
normpath_from(acc, rest) ==
    IF rest = <<>>
    THEN acc
    ELSE IF Head(rest) = DotDot
    THEN normpath_from(IF acc = <<>> THEN acc ELSE SubSeq(acc, 1, Len(acc) - 1),
                       Tail(rest))
    ELSE normpath_from(Append(acc, Head(rest)), Tail(rest))

normpath(path) == normpath_from(<<>>, path)

\* The path written out: "/" before every component, "/" alone for the root.
RECURSIVE PathString(_)
PathString(path) ==
    IF path = <<>>
    THEN <<"/">>
    ELSE IF Len(path) = 1
    THEN <<"/">> \o path[1]
    ELSE PathString(SubSeq(path, 1, Len(path) - 1)) \o <<"/">> \o path[Len(path)]

startswith(str, prefix) ==
    Len(prefix) <= Len(str) /\ SubSeq(str, 1, Len(prefix)) = prefix

NotFound == [status |-> 404, path |-> <<>>]
Sent(path) == [status |-> 200, path |-> path]

get_model_file(filename, files) ==
    LET requested_path == UPLOAD_FOLDER \o filename
        normalized_path == normpath(requested_path)
        \* os.path.normpath(UPLOAD_FOLDER + os.sep): normpath drops the
        \* trailing separator again
        folder_prefix == PathString(normpath(UPLOAD_FOLDER))
    IN  IF ~startswith(PathString(normalized_path), folder_prefix)
        THEN NotFound
        ELSE IF normalized_path \notin files
        THEN NotFound
        ELSE Sent(normalized_path)

\* Requested names of up to three components: "..", "u", "u2", "m".
RequestedNames ==
    UNION {[1..n -> {DotDot, <<"u">>, <<"u", "2">>, <<"m">>}] : n \in 1..3}

\* /t/u/m, /t/u/u2/m, /t/u2/m and /t/m
RegularFiles ==
    {UPLOAD_FOLDER \o <<<<"m">>>>,
     UPLOAD_FOLDER \o <<<<"u", "2">>, <<"m">>>>,
     <<<<"t">>, <<"u", "2">>, <<"m">>>>,
     <<<<"t">>, <<"m">>>>}

InitServe ==
    /\ \E filename \in RequestedNames, files \in SUBSET RegularFiles :
           last = [op |-> "request", filename |-> filename, files |-> files]
    /\ organ = OrganFields("Heart", NoneStr)
    /\ bench = [s \in Slots |-> Free]
    /\ body = EmptyDict
    /\ fresh = EmptyDict
    /\ file = NoFile
    /\ steps = 0
    /\ phase = "build"
    /\ requests = [r \in RequestIds |-> NotReceived]
    /\ uploads = EmptyFolder

GetModelFile ==
    /\ last.op = "request"
    /\ last' = [op |-> "get_model_file", filename |-> last.filename,
                files |-> last.files,
                ret |-> get_model_file(last.filename, last.files)]
    /\ UNCHANGED <<routeVars, organ, bench, body, file, fresh, steps, phase>>

SpecServe == InitServe /\ [][GetModelFile]_vars

\* A path lies inside a folder when the folder's components begin it.
IsDescendant(path, folder) ==
    Len(path) > Len(folder) /\ SubSeq(path, 1, Len(folder)) = folder

\* C30: get_model_file sends a file only when its normalized path is a
\* descendant of the upload folder, and answers 404 to every request that
\* resolves outside the folder.
C30_ServesOnlyInsideUploadFolder ==
    last.op = "get_model_file"
    => /\ last.ret.status = 200 => IsDescendant(last.ret.path, UPLOAD_FOLDER)
       /\ ~IsDescendant(normpath(UPLOAD_FOLDER \o last.filename), UPLOAD_FOLDER)
             => last.ret = NotFound

(***************************************************************************)
(* Properties of the encoding.                                              *)
(***************************************************************************)
RECURSIVE SameOrgan(_, _)
SameOrgan(a, b) ==
    /\ a.name = b.name
    /\ a.mesh_file = b.mesh_file
    /\ \A f \in AttrFields : PyEq(a[f], b[f])
    /\ DOMAIN a.sub_organs = DOMAIN b.sub_organs
    /\ \A n \in DOMAIN a.sub_organs : SameOrgan(a.sub_organs[n], b.sub_organs[n])

\* C1: Organ.from_dict(o.to_dict()) succeeds and yields an organ with the
\* name, mesh_file, voxel_resolution and six property values of o and the
\* same sub-organ names, each sub-organ reproduced in the same way; and a
\* body saved with save_to_file and loaded into a fresh body with
\* load_from_file has the same organ keys, every organ so reproduced.
C1_RoundTrip ==
    /\ last.op = "round_trip"
           => (last.out.ok /\ SameOrgan(last.src, last.out.organ))
    /\ (last.op = "load_from_file" /\ last.saved /\ last.io = "ok")
           => /\ DOMAIN fresh = DOMAIN body
              /\ \A k \in DOMAIN body : SameOrgan(body[k], fresh[k])

\* A saved and reloaded body with an organ whose sub-organ carries an
\* assigned attribute value.
C1_Witness ==
    /\ last.op = "load_from_file" /\ last.saved /\ last.io = "ok"
    /\ \E k \in DOMAIN fresh :
           \E n \in DOMAIN fresh[k].sub_organs :
               \E f \in AttrFields :
                   /\ body[k].sub_organs[n][f] \in AttrValues
                   /\ fresh[k].sub_organs[n][f].t = "float"

=============================================================================
